---- MODULE Spec2Model ----
(***************************************************************************)
(* dicomity: loading a series of DICOM files into one image volume.        *)
(*                                                                         *)
(* The model follows src/src/dicomity/load.py and src/src/dicomity/dicom.py*)
(* statement by statement.  The collaborators whose code is not part of    *)
(* the sources at hand (dicomity.util.sort_filenames, dicomity.group's     *)
(* DicomGrouper and DicomStack) are modelled from the design document.     *)
(*                                                                         *)
(* One run of load_main_image_from_dicom_files is one behaviour: Init      *)
(* chooses the files on disk and the filenames argument, the actions are   *)
(* the statements of the pipeline in program order.  Filenames are plain   *)
(* strings in one directory (the CoreFilename branch of lines 132-134 only *)
(* changes where the directory comes from) and every named file exists.    *)
(***************************************************************************)
EXTENDS Integers, Sequences, FiniteSets, TLC

VARIABLES
    fs,                 \* the files on disk: name -> [content, meta]
    arg,                \* the filenames argument, until it was last read
    pc,                 \* position of the pipeline
    sorted_filenames,   \* load_metadata_from_dicom_files: sorted_filenames
    num_files,          \* load_metadata_from_dicom_files: num_slices
    file_index,         \* loop index of the pass that is running
    groups,             \* DicomGrouper: the groups, in creation order
    metadata_reads,     \* files handed to read_grouping_metadata, in order
    log,                \* reporting sink: warnings and messages, in order
    progress,           \* reporting sink: progress label, last value, state
    main_group,         \* the DicomStack chosen by largest_stack
    params,             \* result of sort_and_get_parameters
    representative_metadata,
    image_wrapper,      \* CoreWrapper: raw_image is unset or a buffer
    alloc_count,        \* number of np.zeros allocations
    decoded,            \* read_dicom_image calls: <<slice index, outcome>>
    result              \* outcome of each call: pending/returned/raised

vars == <<fs, arg, pc, sorted_filenames, num_files, file_index, groups,
          metadata_reads, log, progress, main_group, params,
          representative_metadata, image_wrapper, alloc_count, decoded,
          result>>

(***************************************************************************)
(* Bounds of the model.                                                    *)
(***************************************************************************)
MaxFiles == 3       \* longest filenames list
MaxPos == 1         \* slice positions along the stacking axis are 0..MaxPos

(***************************************************************************)
(* Sequence helpers.                                                       *)
(***************************************************************************)
Range(s) == {s[i] : i \in DOMAIN s}

Min(a, b) == IF a < b THEN a ELSE b

NoDup(s) == \A i, j \in DOMAIN s : i # j => s[i] # s[j]

SeqsUpTo(S, n) == UNION {[1..k -> S] : k \in 0..n}

(***************************************************************************)
(* The files.  A file has bytes (given by its content kind) and, when its  *)
(* tags parse, grouping metadata.  A "badtags" file has the signature but  *)
(* tags that pydicom cannot parse.                                         *)
(***************************************************************************)
FileNames == {"IM1", "IM2", "IM10", "DICOMDIR"}

ContentKinds == {"dicom", "badtags", "empty", "short", "text", "shifted"}

SeriesKeys == {"A", "B", "C"}

DICM == <<68, 73, 67, 77>>

Zeros(n) == [i \in 1..n |-> 0]

\* the bytes of a file of each kind
FileBytes(kind) ==
    CASE kind = "dicom"   -> Zeros(128) \o DICM \o <<2, 0, 0, 0>>
      [] kind = "badtags" -> Zeros(128) \o DICM \o <<255, 255>>
      [] kind = "empty"   -> <<>>
      [] kind = "short"   -> Zeros(128) \o <<68, 73>>
      [] kind = "text"    -> Zeros(128) \o <<68, 73, 67, 79>> \o <<10>>
      [] kind = "shifted" -> DICM \o Zeros(132)

\* f.seek(offset); f.read(n): the bytes from offset on, at most n of them
SeekRead(bytes, offset, n) ==
    SubSeq(bytes, offset + 1, Min(offset + n, Len(bytes)))

MagicOffset == 128
MagicLen == 4

is_dicom(name) ==
    SeekRead(FileBytes(fs[name].content), MagicOffset, MagicLen) = DICM

is_dicom_image_file(name) ==
    IF name = "DICOMDIR" THEN FALSE ELSE is_dicom(name)

\* rows, columns and samples per pixel are part of what makes a series
SeriesRows(k) == CASE k = "A" -> 2 [] k = "B" -> 3 [] k = "C" -> 4
SeriesColumns(k) == CASE k = "A" -> 4 [] k = "B" -> 5 [] k = "C" -> 4
SeriesSamples(k) == CASE k = "A" -> 1 [] k = "B" -> 3 [] k = "C" -> 1

\* position: <<>> when the file has no position, <<p>> otherwise
Positions == {<<>>} \cup {<<p>> : p \in 0..MaxPos}

MetaOf(k, p) ==
    [seriesKey |-> k, position |-> p, Rows |-> SeriesRows(k),
     Columns |-> SeriesColumns(k), SamplesPerPixel |-> SeriesSamples(k)]

Metas == {MetaOf(k, p) : k \in SeriesKeys, p \in Positions}

NoMeta == MetaOf("A", <<>>)

\* what a file of this name holds when it is not a DICOM file
OtherContent(name) ==
    CASE name = "DICOMDIR" -> "text"
      [] name = "IM1"      -> "empty"
      [] name = "IM2"      -> "short"
      [] name = "IM10"     -> "shifted"

\* a file on disk: a DICOM file with its tags, a file with the signature
\* whose tags do not parse, or something else
Files(name) ==
    {[content |-> "dicom", meta |-> m] : m \in Metas}
    \cup {[content |-> "badtags", meta |-> NoMeta]}
    \cup {[content |-> OtherContent(name), meta |-> NoMeta]}

\* dcmread and fromPyDicom hand back the tags or raise; nothing is caught
read_grouping_metadata(name) ==
    IF fs[name].content = "dicom"
    THEN [raised |-> FALSE, value |-> fs[name].meta]
    ELSE [raised |-> TRUE, value |-> NoMeta]

(***************************************************************************)
(* dicomity.util.sort_filenames: numeric order of the filenames, stable.   *)
(***************************************************************************)
NumericKey(name) ==
    CASE name = "DICOMDIR" -> 0
      [] name = "IM1"      -> 1
      [] name = "IM2"      -> 2
      [] name = "IM10"     -> 10

\* s with x inserted behind the last element whose key is not larger;
\* key is a function from the elements to their sort keys
RECURSIVE InsertByKey(_, _, _)
InsertByKey(s, x, key) ==
    IF s = <<>> THEN <<x>>
    ELSE IF key[s[Len(s)]] <= key[x] THEN Append(s, x)
    ELSE Append(InsertByKey(SubSeq(s, 1, Len(s) - 1), x, key), s[Len(s)])

RECURSIVE StableSort(_, _)
StableSort(s, key) ==
    IF s = <<>> THEN <<>>
    ELSE InsertByKey(StableSort(SubSeq(s, 1, Len(s) - 1), key), s[Len(s)], key)

sort_filenames(filenames) ==
    StableSort(filenames, [n \in Range(filenames) |-> NumericKey(n)])

(***************************************************************************)
(* dicomity.group.DicomGrouper: the groups in creation order, each group   *)
(* the sequence of its (filename, metadata) items in the order added.      *)
(***************************************************************************)
Item(name, meta) == [filename |-> name, metadata |-> meta]

matches(group, meta) == group[1].metadata.seriesKey = meta.seriesKey

add_item(gs, name, meta) ==
    IF \E g \in DOMAIN gs : matches(gs[g], meta)
    THEN LET g == CHOOSE h \in DOMAIN gs :
                      /\ matches(gs[h], meta)
                      /\ \A e \in 1..(h - 1) : ~matches(gs[e], meta)
         IN  [gs EXCEPT ![g] = Append(@, Item(name, meta))]
    ELSE Append(gs, <<Item(name, meta)>>)

number_of_groups(gs) == Len(gs)

\* the mutant takes the last of the groups that share the largest size
LargestIndexLast(gs) ==
    CHOOSE g \in DOMAIN gs :
        /\ \A h \in DOMAIN gs : Len(gs[h]) <= Len(gs[g])
        /\ \A e \in (g + 1)..Len(gs) : Len(gs[e]) < Len(gs[g])

\* index of the first group that has the largest number of members
LargestIndex(gs) ==
    CHOOSE g \in DOMAIN gs :
        /\ \A h \in DOMAIN gs : Len(gs[h]) <= Len(gs[g])
        /\ \A e \in 1..(g - 1) : Len(gs[e]) < Len(gs[g])

largest_stack(gs) == gs[LargestIndex(gs)]

(***************************************************************************)
(* dicomity.group.DicomStack.sort_and_get_parameters.  Positions are the   *)
(* scalar coordinates along the stacking axis.  The slice thickness is     *)
(* kept as twice the median of the consecutive differences, so that the    *)
(* median of an even number of differences stays an integer; 0 stands for  *)
(* "unknown".                                                              *)
(***************************************************************************)
HasAllPositions(stack) ==
    \A i \in DOMAIN stack : stack[i].metadata.position # <<>>

ScalarPosition(item) == item.metadata.position[1]

\* the mutant keeps the file order
SortedStackUnsorted(stack) == stack

SortedStack(stack) ==
    IF HasAllPositions(stack)
    THEN StableSort(stack, [it \in Range(stack) |-> ScalarPosition(it)])
    ELSE stack

SortedPositions(stack) ==
    IF HasAllPositions(stack)
    THEN [i \in DOMAIN stack |-> ScalarPosition(SortedStack(stack)[i])]
    ELSE [i \in DOMAIN stack |-> i - 1]

Differences(ps) == [i \in 1..(Len(ps) - 1) |-> ps[i + 1] - ps[i]]

TwiceMedian(ds) ==
    LET sd == StableSort(ds, [d \in Range(ds) |-> d])
        n  == Len(ds)
    IN  IF n = 0 THEN 0
        ELSE IF n % 2 = 1 THEN 2 * sd[(n + 1) \div 2]
        ELSE sd[n \div 2] + sd[n \div 2 + 1]

SliceThickness2(stack) ==
    IF HasAllPositions(stack)
    THEN TwiceMedian(Differences(SortedPositions(stack)))
    ELSE 0

GlobalOrigin(stack) ==
    IF HasAllPositions(stack)
    THEN SortedStack(stack)[1].metadata.position
    ELSE <<>>

sort_and_get_parameters(stack) ==
    [stack            |-> SortedStack(stack),
     slice_thickness2 |-> SliceThickness2(stack),
     global_origin_mm |-> GlobalOrigin(stack),
     sorted_positions |-> SortedPositions(stack),
     warned           |-> ~HasAllPositions(stack)]

(***************************************************************************)
(* dicom.py: read_dicom_image.  pydicom either hands back the pixel array  *)
(* or raises; read_dicom_image passes both on unchanged, so it never       *)
(* returns None.  The pixel array of a file is represented by PixelsOf.    *)
(***************************************************************************)
DecoderOutcomes == {"ok", "error"}

None == "None"

Zero == "zeros"

PixelsOf(name) == name

read_dicom_image(name, outcome) ==
    IF outcome = "ok"
    THEN [raised |-> FALSE, value |-> PixelsOf(name)]
    ELSE [raised |-> TRUE, value |-> None]

(***************************************************************************)
(* Reporting sink.                                                         *)
(***************************************************************************)
NotADicomFile == "load_metadata_from_dicom_files:NotADicomFile"

MultipleGroupings == "load_main_image_from_dicom_files:MultipleGroupings"

MissingPositions == "sort_and_get_parameters:MissingPositions"

Warning(id, file) == [kind |-> "warning", id |-> id, file |-> file]

\* Python's round(n / d) for n >= 0, d > 0: halves go to the even neighbour
PyRound(n, d) ==
    LET q == n \div d
        r == n % d
    IN  IF 2 * r < d THEN q
        ELSE IF 2 * r > d THEN q + 1
        ELSE IF q % 2 = 0 THEN q ELSE q + 1

Percent(index, total) == PyRound(100 * index, total)

(***************************************************************************)
(* load.py: the state of one call of load_main_image_from_dicom_files.     *)
(***************************************************************************)
\* the filenames argument: one name as a string, or a list of names
Normalise(a) == IF a.kind = "str" THEN <<a.value>> ELSE a.value

NameLists == SeqsUpTo(FileNames, MaxFiles)

Arguments ==
    {[kind |-> "list", value |-> l] : l \in NameLists}
    \cup {[kind |-> "str", value |-> n] : n \in FileNames}

\* the argument once lines 47-48 and 122-123 have read it; nothing reads it
\* again, and forgetting it lets the runs that differ only in the order of
\* the argument meet
Consumed == [kind |-> "list", value |-> <<>>]

Unset == [is_set |-> FALSE, shape |-> <<>>, data |-> <<>>]

NoParams ==
    [slice_thickness2 |-> 0, global_origin_mm |-> <<>>,
     sorted_positions |-> <<>>]

Init ==
    /\ arg \in Arguments
    /\ fs \in {f \in [Range(Normalise(arg)) -> UNION {Files(n) : n \in FileNames}] :
                  \A n \in DOMAIN f : f[n] \in Files(n)}
    /\ pc = "start"
    /\ sorted_filenames = <<>>
    /\ num_files = 0
    /\ file_index = 0
    /\ groups = <<>>
    /\ metadata_reads = <<>>
    /\ log = <<>>
    /\ progress = [label |-> "", value |-> 0, open |-> FALSE]
    /\ main_group = <<>>
    /\ params = NoParams
    /\ representative_metadata = NoMeta
    /\ image_wrapper = Unset
    /\ alloc_count = 0
    /\ decoded = <<>>
    /\ result = [metadata |-> "pending", stack |-> "pending",
                 main |-> "pending"]

\* lines 43-52 and 106-128: the orchestrator calls the metadata pass, which
\* opens the progress display, sorts the filenames and creates the grouper
StartMetadata ==
    /\ pc = "start"
    /\ sorted_filenames' = sort_filenames(Normalise(arg))
    /\ num_files' = Len(Normalise(arg))
    /\ file_index' = 0
    /\ groups' = <<>>
    /\ progress' = [label |-> "Reading image metadata", value |-> 0,
                    open |-> TRUE]
    /\ arg' = Consumed
    /\ pc' = "metadata"
    /\ UNCHANGED <<fs, metadata_reads, log, main_group, params,
                   representative_metadata, image_wrapper, alloc_count,
                   decoded, result>>

\* lines 131-143, 152-154: the file has the signature and its tags parse
AddDicomFile ==
    /\ pc = "metadata"
    /\ file_index < Len(sorted_filenames)
    /\ LET next_file == sorted_filenames[file_index + 1]
           metadata == read_grouping_metadata(next_file)
       IN  /\ is_dicom(next_file)
           /\ ~metadata.raised
           /\ metadata_reads' = Append(metadata_reads, next_file)
           /\ groups' = add_item(groups, next_file, metadata.value)
    /\ progress' = [progress EXCEPT !.value = Percent(file_index, num_files)]
    /\ file_index' = file_index + 1
    /\ UNCHANGED <<fs, arg, pc, sorted_filenames, num_files, log, main_group,
                   params, representative_metadata, image_wrapper,
                   alloc_count, decoded, result>>

\* lines 131-143: the file has the signature, read_grouping_metadata raises
\* and nothing catches it: both calls end with the error
MetadataRaises ==
    /\ pc = "metadata"
    /\ file_index < Len(sorted_filenames)
    /\ LET next_file == sorted_filenames[file_index + 1]
       IN  /\ is_dicom(next_file)
           /\ read_grouping_metadata(next_file).raised
           /\ metadata_reads' = Append(metadata_reads, next_file)
    /\ result' = [result EXCEPT !.metadata = "raised", !.main = "raised"]
    /\ pc' = "raised"
    /\ UNCHANGED <<fs, arg, sorted_filenames, num_files, file_index, groups,
                   log, progress, main_group, params,
                   representative_metadata, image_wrapper, alloc_count,
                   decoded>>

\* lines 131-139, 144-154: the file has no signature
ExcludeFile ==
    /\ pc = "metadata"
    /\ file_index < Len(sorted_filenames)
    /\ LET next_file == sorted_filenames[file_index + 1]
       IN  /\ ~is_dicom(next_file)
           /\ log' = Append(log, Warning(NotADicomFile, next_file))
    /\ progress' = [progress EXCEPT !.value = Percent(file_index, num_files)]
    /\ file_index' = file_index + 1
    /\ UNCHANGED <<fs, arg, pc, sorted_filenames, num_files, groups,
                   metadata_reads, main_group, params,
                   representative_metadata, image_wrapper, alloc_count,
                   decoded, result>>

\* lines 156-157
CompleteMetadata ==
    /\ pc = "metadata"
    /\ file_index = Len(sorted_filenames)
    /\ progress' = [progress EXCEPT !.open = FALSE]
    /\ result' = [result EXCEPT !.metadata = "returned"]
    /\ pc' = "grouped"
    /\ UNCHANGED <<fs, arg, sorted_filenames, num_files, file_index, groups,
                   metadata_reads, log, main_group, params,
                   representative_metadata, image_wrapper, alloc_count,
                   decoded>>

\* the mutant warns as soon as there is a group at all
CheckGroupingsAny ==
    /\ pc = "grouped"
    /\ log' = IF number_of_groups(groups) > 0
              THEN Append(log, Warning(MultipleGroupings, ""))
              ELSE log
    /\ pc' = "select"
    /\ UNCHANGED <<fs, arg, sorted_filenames, num_files, file_index, groups,
                   metadata_reads, progress, main_group, params,
                   representative_metadata, image_wrapper, alloc_count,
                   decoded, result>>

\* lines 56-63
CheckGroupings ==
    /\ pc = "grouped"
    /\ log' = IF number_of_groups(groups) > 1
              THEN Append(log, Warning(MultipleGroupings, ""))
              ELSE log
    /\ pc' = "select"
    /\ UNCHANGED <<fs, arg, sorted_filenames, num_files, file_index, groups,
                   metadata_reads, progress, main_group, params,
                   representative_metadata, image_wrapper, alloc_count,
                   decoded, result>>

\* line 66
ChooseLargest ==
    /\ pc = "select"
    /\ groups # <<>>
    /\ main_group' = largest_stack(groups)
    /\ pc' = "sort"
    /\ UNCHANGED <<fs, arg, sorted_filenames, num_files, file_index, groups,
                   metadata_reads, log, progress, params,
                   representative_metadata, image_wrapper, alloc_count,
                   decoded, result>>

\* lines 66-74 when no file was added: there is no group to make a stack of
NoGroup ==
    /\ pc = "select"
    /\ groups = <<>>
    /\ result' = [result EXCEPT !.main = "raised"]
    /\ pc' = "raised"
    /\ UNCHANGED <<fs, arg, sorted_filenames, num_files, file_index, groups,
                   metadata_reads, log, progress, main_group, params,
                   representative_metadata, image_wrapper, alloc_count,
                   decoded>>

\* lines 69-70
SortStack ==
    /\ pc = "sort"
    /\ LET r == sort_and_get_parameters(main_group)
       IN  /\ main_group' = r.stack
           /\ params' = [slice_thickness2 |-> r.slice_thickness2,
                         global_origin_mm |-> r.global_origin_mm,
                         sorted_positions |-> r.sorted_positions]
           /\ log' = IF r.warned
                     THEN Append(log, Warning(MissingPositions, ""))
                     ELSE log
    /\ pc' = "representative"
    /\ UNCHANGED <<fs, arg, sorted_filenames, num_files, file_index, groups,
                   metadata_reads, progress, representative_metadata,
                   image_wrapper, alloc_count, decoded, result>>

\* line 74
PickRepresentative ==
    /\ pc = "representative"
    /\ representative_metadata' = main_group[1].metadata
    /\ pc' = "load"
    /\ UNCHANGED <<fs, arg, sorted_filenames, num_files, file_index, groups,
                   metadata_reads, log, progress, main_group, params,
                   image_wrapper, alloc_count, decoded, result>>

(***************************************************************************)
(* load.py: load_images_from_stack, called at lines 77-80.  Slice indices  *)
(* are those of the code, 0..num_slices - 1; slice i is main_group[i + 1]. *)
(***************************************************************************)
Slice(stack, i) == stack[i + 1]

\* the mutant forgets the samples axis
ImageSizeFlat(stack) ==
    <<Slice(stack, 0).metadata.Rows, Slice(stack, 0).metadata.Columns,
      Len(stack)>>

\* lines 193-196, 205-206
ImageSize(stack) ==
    LET size_i == Slice(stack, 0).metadata.Rows
        size_j == Slice(stack, 0).metadata.Columns
        size_k == Len(stack)
        samples_per_pixel == Slice(stack, 0).metadata.SamplesPerPixel
    IN  IF samples_per_pixel > 1
        THEN <<size_i, size_j, size_k, samples_per_pixel>>
        ELSE <<size_i, size_j, size_k>>

\* line 207: np.zeros(image_size, data_type)
Zeros3(stack) ==
    [is_set |-> TRUE, shape |-> ImageSize(stack),
     data |-> [k \in 0..(Len(stack) - 1) |-> Zero]]

\* lines 208-211, 215-218: raw_image[:, :, index(, :)] = pixels
WriteSlice(wrapper, index, pixels) ==
    [wrapper EXCEPT !.data[index] = pixels]

\* the mutant leaves the loop one slice early
HasNextSliceShort(stack, index) == index < Len(stack) - 1

\* line 213: the indices the loop still has to visit
HasNextSlice(stack, index) == index < Len(stack)

\* lines 177-211: the first slice is read.  Lines 199-204 choose the element
\* type of the buffer (and may show a message); the element type is not
\* part of the model.
LoadFirstSlice ==
    /\ pc = "load"
    /\ \E outcome \in DecoderOutcomes :
         LET first_image_slice ==
                 read_dicom_image(Slice(main_group, 0).filename, outcome)
         IN  /\ ~first_image_slice.raised
             /\ decoded' = Append(decoded, <<0, outcome>>)
             /\ IF first_image_slice.value = None
                THEN /\ image_wrapper' = Unset
                     /\ alloc_count' = alloc_count
                     /\ file_index' = file_index
                     /\ result' = [result EXCEPT !.stack = "returned"]
                     /\ pc' = "assembled"
                ELSE /\ image_wrapper' =
                            WriteSlice(Zeros3(main_group), 0,
                                       first_image_slice.value)
                     /\ alloc_count' = alloc_count + 1
                     /\ file_index' = 1
                     /\ result' = result
                     /\ pc' = "pixels"
    /\ progress' = [label |-> "Reading pixel data", value |-> 0, open |-> TRUE]
    /\ UNCHANGED <<fs, arg, sorted_filenames, num_files, groups,
                   metadata_reads, log, main_group, params,
                   representative_metadata>>

\* lines 177-188: reading the first slice raises; nothing catches it
FirstSliceRaises ==
    /\ pc = "load"
    /\ \E outcome \in DecoderOutcomes :
         /\ read_dicom_image(Slice(main_group, 0).filename, outcome).raised
         /\ decoded' = Append(decoded, <<0, outcome>>)
    /\ progress' = [label |-> "Reading pixel data", value |-> 0, open |-> TRUE]
    /\ image_wrapper' = Unset
    /\ result' = [result EXCEPT !.stack = "raised", !.main = "raised"]
    /\ pc' = "raised"
    /\ UNCHANGED <<fs, arg, sorted_filenames, num_files, file_index, groups,
                   metadata_reads, log, main_group, params,
                   representative_metadata, alloc_count>>

\* lines 213-219: one turn of the loop
LoadNextSlice ==
    /\ pc = "pixels"
    /\ HasNextSlice(main_group, file_index)
    /\ \E outcome \in DecoderOutcomes :
         LET next_slice ==
                 read_dicom_image(Slice(main_group, file_index).filename,
                                  outcome)
         IN  /\ ~next_slice.raised
             /\ decoded' = Append(decoded, <<file_index, outcome>>)
             /\ image_wrapper' =
                    WriteSlice(image_wrapper, file_index, next_slice.value)
    /\ progress' = [progress EXCEPT
                        !.value = Percent(file_index, Len(main_group))]
    /\ file_index' = file_index + 1
    /\ UNCHANGED <<fs, arg, pc, sorted_filenames, num_files, groups,
                   metadata_reads, log, main_group, params,
                   representative_metadata, alloc_count, result>>

\* the mutant catches the error of a later slice and goes on to the next
NextSliceSkipped ==
    /\ pc = "pixels"
    /\ HasNextSlice(main_group, file_index)
    /\ \E outcome \in DecoderOutcomes :
         /\ read_dicom_image(Slice(main_group, file_index).filename,
                             outcome).raised
         /\ decoded' = Append(decoded, <<file_index, outcome>>)
    /\ file_index' = file_index + 1
    /\ UNCHANGED <<fs, arg, pc, sorted_filenames, num_files, groups,
                   metadata_reads, log, progress, main_group, params,
                   representative_metadata, image_wrapper, alloc_count,
                   result>>

\* lines 213-214: reading a later slice raises; nothing catches it
NextSliceRaises ==
    /\ pc = "pixels"
    /\ HasNextSlice(main_group, file_index)
    /\ \E outcome \in DecoderOutcomes :
         /\ read_dicom_image(Slice(main_group, file_index).filename,
                             outcome).raised
         /\ decoded' = Append(decoded, <<file_index, outcome>>)
    /\ result' = [result EXCEPT !.stack = "raised", !.main = "raised"]
    /\ pc' = "raised"
    /\ UNCHANGED <<fs, arg, sorted_filenames, num_files, file_index, groups,
                   metadata_reads, log, progress, main_group, params,
                   representative_metadata, image_wrapper, alloc_count>>

\* lines 221-222
CompleteLoad ==
    /\ pc = "pixels"
    /\ ~HasNextSlice(main_group, file_index)
    /\ progress' = [progress EXCEPT !.open = FALSE]
    /\ result' = [result EXCEPT !.stack = "returned"]
    /\ pc' = "assembled"
    /\ UNCHANGED <<fs, arg, sorted_filenames, num_files, file_index, groups,
                   metadata_reads, log, main_group, params,
                   representative_metadata, image_wrapper, alloc_count,
                   decoded>>

\* lines 82-83
ReturnTuple ==
    /\ pc = "assembled"
    /\ result' = [result EXCEPT !.main = "returned"]
    /\ pc' = "done"
    /\ UNCHANGED <<fs, arg, sorted_filenames, num_files, file_index, groups,
                   metadata_reads, log, progress, main_group, params,
                   representative_metadata, image_wrapper, alloc_count,
                   decoded>>

Next ==
    \/ StartMetadata
    \/ AddDicomFile
    \/ MetadataRaises
    \/ ExcludeFile
    \/ CompleteMetadata
    \/ CheckGroupings
    \/ ChooseLargest
    \/ NoGroup
    \/ SortStack
    \/ PickRepresentative
    \/ LoadFirstSlice
    \/ FirstSliceRaises
    \/ LoadNextSlice
    \/ NextSliceRaises
    \/ CompleteLoad
    \/ ReturnTuple

Spec == Init /\ [][Next]_vars

(***************************************************************************)
(* The pipeline up to the sorted positions as a function of the filenames  *)
(* list: the metadata pass (lines 122-157), the choice of the largest      *)
(* group (line 66) and the sort (lines 69-70).                             *)
(***************************************************************************)
RECURSIVE GroupPrefix(_, _)
GroupPrefix(names, k) ==
    IF k = 0 THEN [raised |-> FALSE, groups |-> <<>>]
    ELSE LET before == GroupPrefix(names, k - 1)
             next_file == names[k]
             metadata == read_grouping_metadata(next_file)
         IN  IF before.raised THEN before
             ELSE IF ~is_dicom(next_file) THEN before
             ELSE IF metadata.raised
                  THEN [raised |-> TRUE, groups |-> <<>>]
                  ELSE [raised |-> FALSE,
                        groups |-> add_item(before.groups, next_file,
                                            metadata.value)]

\* what lines 131-157 and 66-70 give for sorted_positions when the files
\* reach the Grouper in this order: nothing when the metadata pass raises,
\* and nothing when no file was added (there is no stack to select)
GroupedPositionsFor(order) ==
    LET pass == GroupPrefix(order, Len(order))
    IN  IF pass.raised \/ pass.groups = <<>>
        THEN [raised |-> TRUE, sorted_positions |-> <<>>]
        ELSE [raised |-> FALSE,
              sorted_positions |->
                  sort_and_get_parameters(
                      largest_stack(pass.groups)).sorted_positions]

\* what the pipeline gives for sorted_positions on this filenames argument:
\* line 122 sorts the filenames before the Grouper sees them
SortedPositionsFor(filenames) ==
    GroupedPositionsFor(sort_filenames(filenames))

\* the files named in the argument: the files of this run
GivenFiles == DOMAIN fs

\* every order in which the entries of the list s can be given
Orderings(s) ==
    {[i \in DOMAIN s |-> s[p[i]]] :
         p \in {q \in [DOMAIN s -> DOMAIN s] : NoDup(q)}}

(***************************************************************************)
(* Vocabulary of the properties.                                           *)
(***************************************************************************)
CountWarnings(id, file) ==
    Cardinality({i \in DOMAIN log : log[i].id = id /\ log[i].file = file})

\* number of the first n entries of the list s that name this file
Occurrences(s, file, n) ==
    Cardinality({i \in 1..Min(n, Len(s)) : s[i] = file})

\* the reads of the metadata pass that returned tags
AddedReads ==
    IF result.metadata = "raised"
    THEN SubSeq(metadata_reads, 1, Len(metadata_reads) - 1)
    ELSE metadata_reads

\* number of group members that carry this filename
CountAdded(file) ==
    Cardinality(UNION {{<<g, i>> : i \in {j \in DOMAIN groups[g] :
                                              groups[g][j].filename = file}} :
                           g \in DOMAIN groups})

GroupedFiles ==
    UNION {{groups[g][i].filename : i \in DOMAIN groups[g]} :
               g \in DOMAIN groups}

\* files the metadata pass has finished with
Processed ==
    IF pc = "start" THEN 0
    ELSE IF pc = "metadata" THEN file_index
    ELSE Len(sorted_filenames)

\* the metadata pass has returned and lines 56-63 have run
AfterGrouping ==
    result.metadata = "returned" /\ pc \notin {"metadata", "grouped"}

\* a stack was selected (with no group there is none to select)
AfterSelection ==
    AfterGrouping /\ pc # "select" /\ groups # <<>>

AfterSort == AfterSelection /\ pc # "sort"

NumSlices == Len(main_group)

FirstSliceFailed == decoded # <<>> /\ decoded[1] = <<0, "error">>

LaterSliceFailed ==
    \E j \in DOMAIN decoded : decoded[j][1] >= 1 /\ decoded[j][2] = "error"

NonDecreasing(ps) == \A i \in 1..(Len(ps) - 1) : ps[i] <= ps[i + 1]

(***************************************************************************)
(* Properties of load_images_from_stack.                                   *)
(***************************************************************************)

\* C1: when load_images_from_stack returns, the volume is never partially
\* filled: it is unset with no buffer allocated, or the buffer was allocated
\* exactly once and index i along the slice axis holds the decoded pixels of
\* stack slice i, for every i in 0..N-1.
C1_NeverPartiallyFilled ==
    result.stack = "returned" =>
        \/ image_wrapper = Unset /\ alloc_count = 0
        \/ /\ image_wrapper.is_set
           /\ alloc_count = 1
           /\ DOMAIN image_wrapper.data = 0..(NumSlices - 1)
           /\ \A i \in 0..(NumSlices - 1) :
                  image_wrapper.data[i] = PixelsOf(Slice(main_group, i).filename)

\* a stack of three slices was assembled and returned
C1_Witness ==
    /\ result.stack = "returned"
    /\ image_wrapper.is_set
    /\ NumSlices = 3
    /\ Len(decoded) = 3

\* C2 (as claimed): if decoding slice 0 fails, load_images_from_stack returns
\* an unset volume and raises nothing; no buffer is allocated and no slice
\* with index >= 1 is decoded.
C2_FirstSliceFailureIsSoft ==
    FirstSliceFailed =>
        /\ result.stack = "returned"
        /\ image_wrapper = Unset
        /\ alloc_count = 0
        /\ Len(decoded) = 1

\* C3: if decoding of a slice with index k in 1..N-1 fails, the error is not
\* caught: load_images_from_stack ends with the error and returns no volume,
\* and load_main_image_from_dicom_files returns no 5-tuple.
C3_LaterFailurePropagates ==
    LaterSliceFailed =>
        /\ result.stack = "raised"
        /\ result.main = "raised"
        /\ pc = "raised"
        /\ decoded[Len(decoded)][2] = "error"

\* slices 0 and 1 of a stack of three were decoded and slice 2 failed
C3_Witness ==
    /\ NumSlices = 3
    /\ decoded = <<<<0, "ok">>, <<1, "ok">>, <<2, "error">>>>
    /\ result.stack = "raised"

(***************************************************************************)
(* Properties of the metadata pass.                                        *)
(***************************************************************************)

\* C4 (as claimed): metadata extraction is never attempted on a file that
\* fails the check of bytes 128..131 or that is named DICOMDIR, and no such
\* file is ever added to the Grouper.
C4_NonMembersNeverRead ==
    /\ \A i \in DOMAIN metadata_reads : is_dicom_image_file(metadata_reads[i])
    /\ \A f \in GroupedFiles : is_dicom_image_file(f)

\* C5: a file without the signature is not fatal.  The entries of the list
\* are taken in sorted filename order; each entry the pass has finished
\* with either has the signature and is in the Grouper exactly once with no
\* warning, or has none and drew exactly one NotADicomFile warning and is
\* in no group; the entries not yet reached are in neither; and once the
\* pass is over every entry has been dealt with, so the groups hold exactly
\* the files that have the signature.
C5_EveryFileAddedOrWarned ==
    pc # "start" =>
        /\ Range(sorted_filenames) = GivenFiles
        /\ \A i \in 1..(Len(sorted_filenames) - 1) :
               NumericKey(sorted_filenames[i])
                   <= NumericKey(sorted_filenames[i + 1])
        /\ \A f \in GivenFiles :
               LET done == Occurrences(sorted_filenames, f, Processed)
                   added == CountAdded(f)
                   warned == CountWarnings(NotADicomFile, f)
               IN  IF is_dicom(f)
                   THEN added = done /\ warned = 0
                   ELSE added = 0 /\ warned = done
        /\ pc # "metadata" =>
               GroupedFiles = {f \in GivenFiles : is_dicom(f)}

(***************************************************************************)
(* Properties of the orchestrator.                                         *)
(***************************************************************************)

\* C6 (as claimed): the only thing that ends
\* load_main_image_from_dicom_files without its 5-tuple is the failure to
\* decode a slice with index > 0.  Stated for every run but the ones whose
\* metadata pass returned without a group.
C6_OnlyLaterFailureAborts ==
    (result.main = "raised"
         /\ ~(result.metadata = "returned" /\ groups = <<>>))
        => LaterSliceFailed

\* C7: the MultipleGroupings warning is emitted exactly once when the
\* Grouper holds more than one group and never when it holds at most one; it
\* comes after the metadata pass and before the stack is selected; it does
\* not stop the pipeline; only the slices of the largest group are sorted
\* and assembled.
C7_MultipleGroupingsWarnedOnce ==
    LET warned == CountWarnings(MultipleGroupings, "")
        at == CHOOSE i \in DOMAIN log : log[i].id = MultipleGroupings
    IN  /\ ~AfterGrouping => warned = 0 /\ main_group = <<>>
        /\ AfterGrouping =>
               warned = (IF Len(groups) > 1 THEN 1 ELSE 0)
        /\ warned = 1 =>
               /\ \A i \in DOMAIN log :
                      /\ log[i].id = NotADicomFile => i < at
                      /\ log[i].id = MissingPositions => at < i
               /\ Processed = Len(sorted_filenames)
               /\ result.main = "raised" =>
                      decoded # <<>> /\ decoded[Len(decoded)][2] = "error"
        /\ AfterSelection =>
               /\ \E g \in DOMAIN groups : Range(main_group) = Range(groups[g])
               /\ \A g \in DOMAIN groups : Len(groups[g]) <= NumSlices
               /\ Len(decoded) <= NumSlices
               /\ image_wrapper.is_set =>
                      /\ image_wrapper.shape[3] = NumSlices
                      /\ \A i \in DOMAIN image_wrapper.data :
                             image_wrapper.data[i] \in
                                 {Zero} \cup {PixelsOf(main_group[j].filename) :
                                                  j \in DOMAIN main_group}
               /\ AfterSort => Len(params.sorted_positions) = NumSlices

\* two groups were found, the warning was given once and the call returned
\* the volume of the larger group
C7_Witness ==
    /\ pc = "done"
    /\ Len(groups) = 2
    /\ CountWarnings(MultipleGroupings, "") = 1
    /\ NumSlices = 2
    /\ image_wrapper.is_set

\* C8: for a stack of N slices whose slice 0 decodes, the volume has shape
\* (rows, columns, N) when samplesPerPixel is 1 and (rows, columns, N,
\* samplesPerPixel) when it is larger, rows, columns and samplesPerPixel
\* being those of the file of slice 0.
C8_VolumeShape ==
    (AfterSelection /\ decoded # <<>> /\ decoded[1] = <<0, "ok">>) =>
        LET first == fs[main_group[1].filename].meta
        IN  /\ image_wrapper.is_set
            /\ first.SamplesPerPixel = 1 =>
                   image_wrapper.shape
                       = <<first.Rows, first.Columns, NumSlices>>
            /\ first.SamplesPerPixel > 1 =>
                   image_wrapper.shape
                       = <<first.Rows, first.Columns, NumSlices,
                           first.SamplesPerPixel>>

\* a volume of two slices with three samples per pixel was returned
C8_Witness ==
    /\ result.stack = "returned"
    /\ image_wrapper.is_set
    /\ NumSlices = 2
    /\ representative_metadata.SamplesPerPixel = 3
    /\ Len(image_wrapper.shape) = 4

(***************************************************************************)
(* Properties of the Grouper and of the Stack.                             *)
(***************************************************************************)
KeysAdded == {fs[f].meta.seriesKey : f \in Range(AddedReads)}

\* C9: the number of groups is the number of distinct seriesKeys added and
\* groups never merge (every group holds one key, no two groups hold the
\* same key, every read that gave tags added one member); largest_stack
\* returns the first-created group among those with the most members, and
\* the groups are still all there afterwards.
C9_GroupsAndLargestStack ==
    /\ number_of_groups(groups) = Cardinality(KeysAdded)
    /\ \A g \in DOMAIN groups :
           /\ groups[g] # <<>>
           /\ \A i \in DOMAIN groups[g] :
                  groups[g][i].metadata.seriesKey
                      = groups[g][1].metadata.seriesKey
           /\ \A h \in DOMAIN groups :
                  h # g => groups[h][1].metadata.seriesKey
                               # groups[g][1].metadata.seriesKey
    /\ \A f \in Range(AddedReads) :
           CountAdded(f) = Occurrences(AddedReads, f, Len(AddedReads))
    /\ GroupedFiles = Range(AddedReads)
    /\ AfterSelection =>
           \E g \in DOMAIN groups :
               /\ Range(main_group) = Range(groups[g])
               /\ pc = "sort" => main_group = groups[g]
               /\ \A h \in DOMAIN groups : Len(groups[h]) <= Len(groups[g])
               /\ \A e \in 1..(g - 1) : Len(groups[e]) < Len(groups[g])

\* two groups of the same size: the one created first was returned and
\* both are still in the Grouper
C9_Witness ==
    /\ pc = "sort"
    /\ Len(groups) = 2
    /\ Len(groups[1]) = Len(groups[2])
    /\ main_group = groups[1]

\* C10: for slices that share one seriesKey and all have positions,
\* sorted_positions is non-decreasing and as long as the slice count, and,
\* when sort_and_get_parameters returns them, they are the same for every
\* permutation of the slices: both when the permuted slices are fed to the
\* Grouper in that order (grouping and sorting alone undo the permutation)
\* and when the permuted list is given as the filenames argument (nothing
\* assigns sorted_positions afterwards).
C10_SortedPositionsOrderIndependent ==
    (AfterSort /\ Len(groups) = 1 /\ HasAllPositions(groups[1])) =>
        /\ Len(params.sorted_positions) = Len(groups[1])
        /\ NonDecreasing(params.sorted_positions)
        /\ \A i \in DOMAIN main_group :
               params.sorted_positions[i] = ScalarPosition(main_group[i])
        /\ pc = "representative" =>
               LET same == [raised |-> FALSE,
                            sorted_positions |-> params.sorted_positions]
               IN  \A q \in Orderings(sorted_filenames) :
                       /\ GroupedPositionsFor(q) = same
                       /\ SortedPositionsFor(q) = same

\* three slices of one series whose positions fall against the filename
\* order were sorted, and the Grouper can be fed them in another order, one
\* in which the positions already rise
C10_Witness ==
    /\ pc = "representative"
    /\ Len(groups) = 1
    /\ Len(groups[1]) = 3
    /\ HasAllPositions(groups[1])
    /\ ScalarPosition(groups[1][1]) > ScalarPosition(groups[1][3])
    /\ NonDecreasing(params.sorted_positions)
    /\ \E q \in Orderings(sorted_filenames) :
           /\ q # sorted_filenames
           /\ fs[q[1]].meta.position[1] < fs[q[3]].meta.position[1]
           /\ ~GroupedPositionsFor(q).raised

====
